---- MODULE Spec2Model ----
(***************************************************************************)
(* Model of the CSV normalisation / time-based chunking pipeline of        *)
(* csv_processor.py: read_mixed_format_csv -> chunk_csv_data ->            *)
(* generate_chunk_description / calculate_statistics ->                    *)
(* chunks_to_documents -> get_data_summary, as driven by                   *)
(* create_time_based_chunks; and of the collection names app.py gives the  *)
(* documents it stores in the Chroma database.                             *)
(*                                                                         *)
(* Time is counted in half-hour slots.  A timestamp is the number of slots *)
(* since midnight of day 0 (1900-01-01, the date pandas gives a time-only  *)
(* parse); NaT is the null timestamp produced by errors='coerce'.          *)
(***************************************************************************)
EXTENDS Integers, Sequences, FiniteSets, TLC

VARIABLES
    pc,               \* position inside create_time_based_chunks / its caller
    df_or_path,       \* the argument of create_time_based_chunks
    hours_per_chunk,  \* the configured window, in hours
    df,               \* the rows of the table handed to chunk_csv_data
    timestamp_dtype,  \* the dtype of the timestamp column of df
    df_is_none,       \* read_mixed_format_csv returned None instead of a table
    chunks,           \* List[DataFrame] returned by chunk_csv_data
    chunk_dicts,      \* the chunk dictionaries (chunk_id, statistics, ...)
    documents,        \* metadata of the returned Documents
    summary,          \* the lines reported by get_data_summary
    collections,      \* app.py: names of the collections of the Chroma database
    indexed_pdfs,     \* app.py: st.session_state.indexed_pdfs
    vectorstores      \* app.py: st.session_state.vectorstores, file name -> collection


vars == <<pc, df_or_path, hours_per_chunk, df, timestamp_dtype, df_is_none, chunks, chunk_dicts, documents, summary,
          collections, indexed_pdfs, vectorstores>>

----------------------------------------------------------------------------
(* Bounds of the model *)

MaxRows  == 3     \* rows of an arbitrary input table
MaxSlot  == 5     \* latest half-hour slot of an arbitrary input table
MaxHours == 6     \* largest hours_per_chunk tried
MaxCollections == 3  \* collections of the database of app.py

(* Program constants *)

Hour       == 2   \* timedelta(hours=1), in half-hour slots
SampleRows == 13  \* rows of the hourly sample file of the tests
NaT        == -1  \* null timestamp (errors='coerce')


----------------------------------------------------------------------------
(* Records of a table.  `row` is the row label the table had on entry, so  *)
(* that two rows with equal values stay distinguishable.                   *)

Rec(row, ts) ==
    [row |-> row, timestamp |-> ts, temperature |-> 2000, humidity |-> 6000,
     pressure |-> 101300, battery |-> 420, power_source |-> "Unknown",
     rssi |-> 0, snr |-> 0, charging |-> "N", interval |-> 0, uptime |-> 0]

RECURSIVE SeqSum(_)
SeqSum(s) == IF s = <<>> THEN 0 ELSE Head(s) + SeqSum(Tail(s))

Range(s) == { s[i] : i \in DOMAIN s }

RECURSIVE Concat(_)
Concat(ss) == IF ss = <<>> THEN <<>> ELSE Head(ss) \o Concat(Tail(ss))

----------------------------------------------------------------------------
(* Text.  Cell and field texts are strings; the operators below are the   *)
(* Python string operations the code applies to them.                      *)

Char(s, i) == SubSeq(s, i, i)

UpperCase == "ABCDEFGHIJKLMNOPQRSTUVWXYZ"
LowerCase == "abcdefghijklmnopqrstuvwxyz"
Digits    == "0123456789"

IsSpace(c) == c \in {" ", "\t"}
IsDigit(c) == \E i \in 1..Len(Digits) : Char(Digits, i) = c

\* str.strip()
RECURSIVE LStrip(_)
LStrip(s) == IF s # "" /\ IsSpace(Char(s, 1)) THEN LStrip(SubSeq(s, 2, Len(s))) ELSE s

RECURSIVE RStrip(_)
RStrip(s) == IF s # "" /\ IsSpace(Char(s, Len(s))) THEN RStrip(SubSeq(s, 1, Len(s) - 1)) ELSE s

Strip(s) == RStrip(LStrip(s))

\* str.lower()
LowerChar(c) ==
    IF \E i \in 1..Len(UpperCase) : Char(UpperCase, i) = c
    THEN Char(LowerCase, CHOOSE i \in 1..Len(UpperCase) : Char(UpperCase, i) = c)
    ELSE c

RECURSIVE Lower(_)
Lower(s) == IF s = "" THEN "" ELSE LowerChar(Char(s, 1)) \o Lower(SubSeq(s, 2, Len(s)))

AllDigits(s) == s # "" /\ \A i \in 1..Len(s) : IsDigit(Char(s, i))

RECURSIVE DigitsValue(_)
DigitsValue(s) ==
    IF s = "" THEN 0
    ELSE DigitsValue(SubSeq(s, 1, Len(s) - 1)) * 10 + ((CHOOSE i \in 1..Len(Digits) : Char(Digits, i) = Char(s, Len(s))) - 1)

\* text of a sign-less number below 10^width, zero padded (strftime %Y, %m, %d)
RECURSIVE ZeroPadded(_, _)
ZeroPadded(n, width) ==
    IF width = 0 THEN ""
    ELSE ZeroPadded(n \div 10, width - 1) \o Char(Digits, (n % 10) + 1)

Unsigned(t) == IF t # "" /\ Char(t, 1) \in {"+", "-"} THEN SubSeq(t, 2, Len(t)) ELSE t
SignOf(t) == IF t # "" /\ Char(t, 1) = "-" THEN -1 ELSE 1

\* int(text): succeeds on an optionally signed run of digits
IntOk(s) == AllDigits(Unsigned(Strip(s)))
IntValue(s) == SignOf(Strip(s)) * DigitsValue(Unsigned(Strip(s)))

\* position of the decimal point of t, 0 when it has none
PointAt(t) == IF \E i \in 1..Len(t) : Char(t, i) = "."
              THEN CHOOSE i \in 1..Len(t) : Char(t, i) = "." /\ \A j \in 1..i - 1 : Char(t, j) # "."
              ELSE 0

DigitsOrEmpty(t) == \A i \in 1..Len(t) : IsDigit(Char(t, i))

\* float(text), for plain decimal numerals: digits with at most one point.
\* The value is kept in hundredths.
DecimalOkAt(t, p) ==
    IF p = 0 THEN AllDigits(t)
    ELSE /\ Len(t) > 1
         /\ DigitsOrEmpty(SubSeq(t, 1, p - 1))
         /\ DigitsOrEmpty(SubSeq(t, p + 1, Len(t)))
FloatOk(s) == DecimalOkAt(Unsigned(Strip(s)), PointAt(Unsigned(Strip(s))))

DecimalValueAt(t, p) ==
    IF p = 0 THEN DigitsValue(t) * 100
    ELSE DigitsValue(SubSeq(t, 1, p - 1)) * 100
           + DigitsValue(SubSeq(SubSeq(t, p + 1, Len(t)) \o "00", 1, 2))
FloatValue(s) ==
    SignOf(Strip(s)) * DecimalValueAt(Unsigned(Strip(s)), PointAt(Unsigned(Strip(s))))

----------------------------------------------------------------------------
(* Dates and times: pd.to_datetime with an explicit format, and strftime.  *)

SlotsPerDay == 24 * Hour

IsLeap(y) == (y % 4 = 0 /\ y % 100 # 0) \/ y % 400 = 0

DaysInMonth(y, m) ==
    IF m = 2 THEN (IF IsLeap(y) THEN 29 ELSE 28)
    ELSE IF m \in {4, 6, 9, 11} THEN 30 ELSE 31

\* days from 0000-03-01 to the civil date y-m-d (proleptic Gregorian):
\* era of 400 years, year of era, day of the March-based year
DaysOfEra(era, yoe, doy) == era * 146097 + yoe * 365 + yoe \div 4 - yoe \div 100 + doy
DaysShifted(yy, mp, d) == DaysOfEra(yy \div 400, yy % 400, (153 * mp + 2) \div 5 + d - 1)
DaysFromCivil(y, m, d) ==
    DaysShifted(IF m <= 2 THEN y - 1 ELSE y, IF m > 2 THEN m - 3 ELSE m + 9, d)

\* day number of a date, counted from 1900-01-01
DayNumber(y, m, d) == DaysFromCivil(y, m, d) - DaysFromCivil(1900, 1, 1)

\* the civil date <<y, m, d>> of a day number
CivilYmd(y, m, d) == <<IF m <= 2 THEN y + 1 ELSE y, m, d>>
CivilFromMp(y, doy, mp) ==
    CivilYmd(y, IF mp < 10 THEN mp + 3 ELSE mp - 9, doy - (153 * mp + 2) \div 5 + 1)
CivilFromDoy(y, doy) == CivilFromMp(y, doy, (5 * doy + 2) \div 153)
CivilFromYoe(era, doe, yoe) ==
    CivilFromDoy(yoe + era * 400, doe - (365 * yoe + yoe \div 4 - yoe \div 100))
CivilFromDoe(era, doe) ==
    CivilFromYoe(era, doe,
                 (doe - doe \div 1460 + doe \div 36524 - doe \div 146096) \div 365)
CivilFromZ(z) == CivilFromDoe(z \div 146097, z % 146097)
CivilFromDay(n) == CivilFromZ(n + DaysFromCivil(1900, 1, 1))

\* text matches \d{4}-\d{2}-\d{2}
IsDatePattern(s) ==
    /\ Len(s) = 10
    /\ \A i \in {1, 2, 3, 4, 6, 7, 9, 10} : IsDigit(Char(s, i))
    /\ Char(s, 5) = "-" /\ Char(s, 8) = "-"

\* text matches \d{2}:\d{2}:\d{2}
IsTimePattern(s) ==
    /\ Len(s) = 8
    /\ \A i \in {1, 2, 4, 5, 7, 8} : IsDigit(Char(s, i))
    /\ Char(s, 3) = ":" /\ Char(s, 6) = ":"

IsCivil(y, m, d) == y >= 1 /\ m \in 1..12 /\ d \in 1..DaysInMonth(y, m)

\* format '%Y-%m-%d' accepts the text
DateOk(s) ==
    /\ IsDatePattern(s)
    /\ IsCivil(DigitsValue(SubSeq(s, 1, 4)), DigitsValue(SubSeq(s, 6, 7)),
               DigitsValue(SubSeq(s, 9, 10)))

DateValue(s) ==
    DayNumber(DigitsValue(SubSeq(s, 1, 4)), DigitsValue(SubSeq(s, 6, 7)),
              DigitsValue(SubSeq(s, 9, 10)))

\* format '%H:%M:%S' accepts the text
TimeOk(s) ==
    /\ IsTimePattern(s)
    /\ DigitsValue(SubSeq(s, 1, 2)) < 24
    /\ DigitsValue(SubSeq(s, 4, 5)) < 60
    /\ DigitsValue(SubSeq(s, 7, 8)) < 60

\* the time of day in slots (the inputs lie on slot boundaries)
TimeValue(s) ==
    ((DigitsValue(SubSeq(s, 1, 2)) * 60 + DigitsValue(SubSeq(s, 4, 5))) * Hour) \div 60

\* pd.to_datetime(text, format='%H:%M:%S', errors='coerce')
ToDatetimeTimeOnly(s) == IF TimeOk(s) THEN TimeValue(s) ELSE NaT

\* pd.to_datetime(text, format='%Y-%m-%d %H:%M:%S', errors='coerce')
ToDatetimeDateTime(s) ==
    IF /\ Len(s) = 19
       /\ Char(s, 11) = " "
       /\ DateOk(SubSeq(s, 1, 10))
       /\ TimeOk(SubSeq(s, 12, 19))
    THEN DateValue(SubSeq(s, 1, 10)) * SlotsPerDay + TimeValue(SubSeq(s, 12, 19))
    ELSE NaT

FormatDate(c) ==
    ZeroPadded(c[1], 4) \o "-" \o ZeroPadded(c[2], 2) \o "-" \o ZeroPadded(c[3], 2)

FormatTime(minutes) ==
    ZeroPadded(minutes \div 60, 2) \o ":" \o ZeroPadded(minutes % 60, 2) \o ":00"

\* timestamp.strftime('%Y-%m-%d')
StrftimeDate(ts) == FormatDate(CivilFromDay(ts \div SlotsPerDay))

\* timestamp.strftime('%Y-%m-%d %H:%M:%S')
StrftimeDateTime(ts) ==
    StrftimeDate(ts) \o " " \o FormatTime(((ts % SlotsPerDay) * 60) \div Hour)

----------------------------------------------------------------------------
(* chunk_csv_data *)

\* df.dropna(subset=['timestamp'])
DropNa(d) == SelectSeq(d, LAMBDA r : r.timestamp # NaT)

RemoveAt(s, i) == SubSeq(s, 1, i - 1) \o SubSeq(s, i + 1, Len(s))

\* faulty variant: the table is left in the order it arrived
SortValuesOmitted(d) == { d }

\* df.sort_values('timestamp').reset_index(drop=True): every arrangement in
\* ascending timestamp order; the default sort is not stable, so rows with
\* equal timestamps may come out in any order.
RECURSIVE SortValues(_)
SortValues(d) ==
    IF d = <<>> THEN { <<>> }
    ELSE LET least == { i \in DOMAIN d :
                          \A j \in DOMAIN d : d[i].timestamp <= d[j].timestamp }
         IN  UNION { { <<d[i]>> \o rest : rest \in SortValues(RemoveAt(d, i)) }
                     : i \in least }

\* faulty variant: the slice starts one row late
IlocLate(s, a, b) == SubSeq(s, a + 2, b)

\* df.iloc[a:b] with 0-based, end-exclusive positions
Iloc(s, a, b) == SubSeq(s, a + 1, b)

\* df.loc[i, 'time_diff'] for i >= 1 (0-based): timestamp.diff()
TimeDiff(s, i) == s[i + 1].timestamp - s[i].timestamp

\* faulty variant: only a gap of more than a day splits
IsLargeGapOfDays(time_diff) == time_diff > 24 * Hour

\* time_diff > timedelta(hours=1)
IsLargeGap(time_diff) == time_diff > Hour

\* faulty variant: the window closes only once it is exceeded
ReachedLimitStrict(current_duration, max_duration) == current_duration > max_duration

\* current_duration >= max_duration
ReachedLimit(current_duration, max_duration) == current_duration >= max_duration

\* faulty variant: the window is taken within one day
MaxDurationOfDay(h) == (h % 24) * Hour

\* timedelta(hours=hours_per_chunk)
MaxDuration(h) == h * Hour

\* the for loop over range(1, len(df)); returns <<chunks, chunk_start>>
RECURSIVE ChunkLoop(_, _, _, _, _, _)
ChunkLoop(s, i, chunk_start, current_duration, max_duration, acc) ==
    IF i >= Len(s) THEN <<acc, chunk_start>>
    ELSE IF IsLargeGap(TimeDiff(s, i))
         THEN ChunkLoop(s, i + 1, i, 0, max_duration,
                        Append(acc, Iloc(s, chunk_start, i)))
         ELSE IF ReachedLimit(current_duration + TimeDiff(s, i), max_duration)
              THEN ChunkLoop(s, i + 1, i, 0, max_duration,
                             Append(acc, Iloc(s, chunk_start, i)))
              ELSE ChunkLoop(s, i + 1, chunk_start, current_duration + TimeDiff(s, i),
                             max_duration, acc)

\* [c for c in chunks if len(c) > 0]

\* the statements after the loop, on its result out = <<chunks, chunk_start>>
FinishChunks(s, out) ==
    SelectSeq(IF out[2] < Len(s)
              THEN Append(out[1], Iloc(s, out[2], Len(s)))
              ELSE out[1],
              LAMBDA c : c # <<>>)

\* the body of chunk_csv_data after the sort, on the sorted table s
ChunkSorted(s, h) == FinishChunks(s, ChunkLoop(s, 1, 0, 0, MaxDuration(h), <<>>))

----------------------------------------------------------------------------
(* Files.  A file is its path, whether it exists, its header line and its  *)
(* data lines; a line is its comma-separated fields, a blank line is the   *)
(* single empty field.                                                     *)

NoDate == ""    \* None returned by extract_date_from_filename

Min(S) == CHOOSE x \in S : \A y \in S : x <= y

\* os.path.basename(filepath)
Basename(filepath) ==
    LET slashes == { i \in 1..Len(filepath) : Char(filepath, i) = "/" }
    IN  IF slashes = {} THEN filepath
        ELSE SubSeq(filepath, (CHOOSE i \in slashes : \A j \in slashes : j <= i) + 1,
                    Len(filepath))

\* re.search(r'(\d{4})-(\d{2})-(\d{2})', filename): the leftmost match
extract_date_from_filename(filepath) ==
    LET filename == Basename(filepath)
        hits == { i \in 1..Len(filename) - 9 : IsDatePattern(SubSeq(filename, i, i + 9)) }
    IN  IF hits = {} THEN NoDate ELSE SubSeq(filename, Min(hits), Min(hits) + 9)

IsBlankLine(fields) == Len(fields) = 1 /\ Strip(fields[1]) = ""

Quote == "\""

HasQuote(s) == \E i \in 1..Len(s) : Char(s, i) = Quote

\* the fields of the whole file, header first, in reading order
AllFields(file) == file.header \o Concat(file.lines)

\* the tokenizer of pd.read_csv meets a field that opens a quoted string
\* which is never closed ("EOF inside string"): pd.errors.ParserError
HasUnclosedQuote(file) ==
    LET fs == AllFields(file) IN
    \E k \in DOMAIN fs :
        /\ fs[k] # "" /\ Char(fs[k], 1) = Quote
        /\ ~HasQuote(SubSeq(fs[k], 2, Len(fs[k])))
        /\ \A j \in k + 1..Len(fs) : ~HasQuote(fs[j])

\* the data lines pd.read_csv(csv_path, on_bad_lines='skip') keeps: blank
\* lines are skipped, and so is a line with more fields than the header
KeptLines(file) ==
    { i \in DOMAIN file.lines :
        ~IsBlankLine(file.lines[i]) /\ Len(file.lines[i]) <= Len(file.header) }

\* outcome of pd.read_csv(csv_path, on_bad_lines='skip')
ReadCsvOutcome(file) ==
    IF ~file.exists THEN "FileNotFoundError"
    ELSE IF file.header = <<>> THEN "EmptyDataError"
    ELSE IF HasUnclosedQuote(file) THEN "ParserError"
    ELSE "table"

ColumnIndex(header, col) == CHOOSE k \in DOMAIN header : header[k] = col

HasColumn(header, col) == \E k \in DOMAIN header : header[k] = col

\* the text of the cell of column col in data line i
CellText(file, i, col) == file.lines[i][ColumnIndex(file.header, col)]

BoolWords == {"True", "TRUE", "true", "False", "FALSE", "false"}

\* the dtype pandas infers for a column from the texts of its cells
ColumnKind(texts) ==
    IF \A x \in texts : AllDigits(Unsigned(x)) THEN "int"
    ELSE IF \A x \in texts : x = "" \/ FloatOk(x) THEN "float"
    ELSE IF \A x \in texts : x \in BoolWords THEN "bool"
    ELSE "object"

\* str(x) of a cell of a column of that dtype
StrOfCell(kind, text) ==
    CASE kind = "int"   -> text
      [] kind = "float" -> IF text = "" THEN "nan"
                           ELSE IF PointAt(text) = 0 THEN text \o ".0" ELSE text
      [] kind = "bool"  -> IF Lower(text) = "true" THEN "True" ELSE "False"
      [] OTHER          -> IF text = "" THEN "nan" ELSE text

ColumnTexts(file, col) == { CellText(file, i, col) : i \in KeptLines(file) }

\* str(x) of the cell of column col in data line i, as read by pd.read_csv
CellStr(file, i, col) == StrOfCell(ColumnKind(ColumnTexts(file, col)), CellText(file, i, col))

----------------------------------------------------------------------------
(* normalize_csv_columns *)

required_columns == <<"timestamp", "temperature", "humidity", "pressure", "battery">>

MissingRequired(header) == \E k \in DOMAIN required_columns : ~HasColumn(header, required_columns[k])

\* the lambda of normalize_csv_columns, applied to str(x)
NormalizeCharging(x) ==
    IF Strip(x) \in {"1", "Y", "y", "yes", "Yes", "YES", "True", "true"} THEN "Y" ELSE "N"

\* float column of the table: the optional column's value or its default
NumCell(file, i, col, default) ==
    IF HasColumn(file.header, col) THEN FloatValue(CellText(file, i, col)) ELSE default

IntCell(file, i, col, default) ==
    IF HasColumn(file.header, col) THEN IntValue(CellText(file, i, col)) ELSE default

\* the value of a cell of a column pd.read_csv left as text (dtype object)
ObjectValue == 0 - 1000000

\* a measurement column of the table: numbers when pandas infers a numeric
\* dtype for the column, text otherwise
CoreColumn(file, i, col) ==
    IF ColumnKind(ColumnTexts(file, col)) \in {"int", "float"}
    THEN FloatValue(CellText(file, i, col))
    ELSE ObjectValue

\* faulty variant: an absent power_source is always "Unknown"
NormalizedRowUnknown(file, i) ==
    [row          |-> i,
     timestamp    |-> CellText(file, i, "timestamp"),
     temperature  |-> CoreColumn(file, i, "temperature"),
     humidity     |-> CoreColumn(file, i, "humidity"),
     pressure     |-> CoreColumn(file, i, "pressure"),
     battery      |-> CoreColumn(file, i, "battery"),
     power_source |-> IF HasColumn(file.header, "power_source")
                      THEN CellText(file, i, "power_source")
                      ELSE "Unknown",
     rssi         |-> IntCell(file, i, "rssi", 0),
     snr          |-> NumCell(file, i, "snr", 0),
     charging     |-> IF HasColumn(file.header, "charging")
                      THEN NormalizeCharging(CellStr(file, i, "charging"))
                      ELSE "N",
     interval     |-> IntCell(file, i, "interval", 0),
     uptime       |-> IntCell(file, i, "uptime", 0)]

\* one row of normalize_csv_columns(pd.read_csv(...)); the timestamp is
\* still the text of the file
NormalizedRow(file, i) ==
    [row          |-> i,
     timestamp    |-> CellText(file, i, "timestamp"),
     temperature  |-> CoreColumn(file, i, "temperature"),
     humidity     |-> CoreColumn(file, i, "humidity"),
     pressure     |-> CoreColumn(file, i, "pressure"),
     battery      |-> CoreColumn(file, i, "battery"),
     power_source |-> IF HasColumn(file.header, "power_source")
                      THEN CellText(file, i, "power_source")
                      ELSE IF HasColumn(file.header, "charging") THEN "Solar" ELSE "Unknown",
     rssi         |-> IntCell(file, i, "rssi", 0),
     snr          |-> NumCell(file, i, "snr", 0),
     charging     |-> IF HasColumn(file.header, "charging")
                      THEN NormalizeCharging(CellStr(file, i, "charging"))
                      ELSE "N",
     interval     |-> IntCell(file, i, "interval", 0),
     uptime       |-> IntCell(file, i, "uptime", 0)]

RECURSIVE SetToSeq(_)
SetToSeq(S) == IF S = {} THEN <<>> ELSE <<Min(S)>> \o SetToSeq(S \ {Min(S)})

\* normalize_csv_columns(df) on the table read by pd.read_csv: the rows, or
\* the empty DataFrame (no columns) when a required column is missing
normalize_csv_columns(file) ==
    IF MissingRequired(file.header) THEN <<>>
    ELSE LET kept == SetToSeq(KeptLines(file))
         IN  [k \in DOMAIN kept |-> NormalizedRow(file, kept[k])]

----------------------------------------------------------------------------
(* combine_date_and_time *)

\* the timestamp column after combine_date_and_time(df, date_str)
CombinedTimestamp(text, date_str) ==
    IF date_str = NoDate
    THEN ToDatetimeTimeOnly(text)
    ELSE ToDatetimeDateTime(date_str \o " " \o text)

\* faulty variant: rows whose timestamp does not parse are dropped at once
combine_and_drop(rows, date_str) ==
    DropNa([k \in DOMAIN rows |->
              [rows[k] EXCEPT !.timestamp = CombinedTimestamp(rows[k].timestamp, date_str)]])

combine_date_and_time(rows, date_str) ==
    [k \in DOMAIN rows |->
        [rows[k] EXCEPT !.timestamp = CombinedTimestamp(rows[k].timestamp, date_str)]]

----------------------------------------------------------------------------
(* parse_mixed_format_line_by_line *)

\* [f.strip() for f in line.strip().split(',')]
StrippedFields(line) == [k \in DOMAIN line |-> Strip(line[k])]

\* the conversions of the row raise no ValueError
RowConverts(fields) ==
    /\ \A k \in 2..5 : FloatOk(fields[k])
    /\ CASE Len(fields) = 8  -> IntOk(fields[7]) /\ FloatOk(fields[8])
         [] Len(fields) = 9  -> /\ (Strip(fields[7]) # "" => IntOk(fields[7]))
                                /\ IntOk(fields[8]) /\ FloatOk(fields[9])
         [] Len(fields) >= 11 -> /\ (fields[7] # "" => IntOk(fields[7]))
                                 /\ (fields[8] # "" => IntOk(fields[8]))
                                 /\ IntOk(fields[10]) /\ FloatOk(fields[11])
         [] OTHER -> TRUE

\* faulty variant: every row that is not of the standard layout is taken
\* as an unexpected format
RowDictStandardOnly(n, fields) ==
    [row |-> n, timestamp |-> fields[1],
     temperature |-> FloatValue(fields[2]), humidity |-> FloatValue(fields[3]),
     pressure |-> FloatValue(fields[4]), battery |-> FloatValue(fields[5]),
     power_source |-> IF Len(fields) >= 6 THEN fields[6] ELSE "Unknown",
     rssi |-> IF Len(fields) = 8 THEN IntValue(fields[7]) ELSE 0,
     snr |-> IF Len(fields) = 8 THEN FloatValue(fields[8]) ELSE 0,
     charging |-> "N", interval |-> 0, uptime |-> 0]

\* row_dict of one line with at least five fields whose conversions succeed
RowDict(n, fields) ==
    LET core == [row |-> n, timestamp |-> fields[1],
                 temperature |-> FloatValue(fields[2]), humidity |-> FloatValue(fields[3]),
                 pressure |-> FloatValue(fields[4]), battery |-> FloatValue(fields[5])]
        rest ==
          CASE Len(fields) = 8 ->
                 [power_source |-> fields[6], rssi |-> IntValue(fields[7]),
                  snr |-> FloatValue(fields[8]),
                  charging |-> "N", interval |-> 0, uptime |-> 0]
            [] Len(fields) = 9 ->
                 [charging |-> IF Strip(fields[6]) \in {"1", "Y", "y", "yes", "Yes"}
                               THEN "Y" ELSE "N",
                  interval |-> IF Strip(fields[7]) # "" THEN IntValue(fields[7]) ELSE 0,
                  rssi |-> IntValue(fields[8]), snr |-> FloatValue(fields[9]),
                  power_source |-> "Solar", uptime |-> 0]
            [] Len(fields) >= 11 ->
                 [charging |-> fields[6],
                  interval |-> IF fields[7] # "" THEN IntValue(fields[7]) ELSE 0,
                  uptime |-> IF fields[8] # "" THEN IntValue(fields[8]) ELSE 0,
                  power_source |-> fields[9],
                  rssi |-> IntValue(fields[10]), snr |-> FloatValue(fields[11])]
            [] OTHER ->
                 [power_source |-> IF Len(fields) >= 6 THEN fields[6] ELSE "Unknown",
                  rssi |-> 0, snr |-> 0, interval |-> 0, uptime |-> 0,
                  charging |-> "N"]
    IN  core @@ rest

\* the data lines that end in rows.append(row_dict)
ParsedLines(file) ==
    { i \in DOMAIN file.lines :
        /\ ~IsBlankLine(file.lines[i])
        /\ Len(file.lines[i]) >= 5
        /\ RowConverts(StrippedFields(file.lines[i])) }

\* the rows of pd.DataFrame(rows); empty stands for the None returned when
\* no row is valid
parse_mixed_format_line_by_line(file) ==
    LET parsed == SetToSeq(ParsedLines(file))
    IN  [k \in DOMAIN parsed |-> RowDict(parsed[k], StrippedFields(file.lines[parsed[k]]))]

----------------------------------------------------------------------------
(* read_mixed_format_csv *)

\* which way read_mixed_format_csv returns for the file
PathOf(file, outcome) ==
    CASE outcome = "ParserError" -> "line_by_line"
      [] outcome = "table" ->
            IF KeptLines(file) = {} THEN "empty"               \* falls off the if: None
            ELSE IF MissingRequired(file.header) THEN "error"  \* KeyError: 'timestamp'
            ELSE "primary"
      [] OTHER -> "error"

ReadPath(file) == PathOf(file, ReadCsvOutcome(file))

\* the result of read_mixed_format_csv(csv_path): [none, rows]
\* df = combine_date_and_time(df, file_date); return df, and the None of
\* a fallback that found no valid row
Returned(rows, file_date) ==
    [none |-> rows = <<>>, rows |-> combine_date_and_time(rows, file_date)]

ReadVia(file, path, file_date) ==
    CASE path = "primary" -> Returned(normalize_csv_columns(file), file_date)
      [] path = "line_by_line" -> Returned(parse_mixed_format_line_by_line(file), file_date)
      [] OTHER -> [none |-> TRUE, rows |-> <<>>]

read_mixed_format_csv(file) ==
    ReadVia(file, ReadPath(file), extract_date_from_filename(file.path))

----------------------------------------------------------------------------
(* Statistics and description of one chunk.  A dict is a function from its *)
(* keys; a mean is the fraction [num, den].                                *)

Empty == <<>>    \* the dict {}

\* dict.get(key, default)
Get(d, key, default) == IF key \in DOMAIN d THEN d[key] ELSE default

Column(group, col) == [i \in DOMAIN group |-> group[i][col]]

Frac(n, d) == [num |-> n, den |-> d]

\* a > b for fractions with positive denominators
FracGt(a, b) == a.num * b.den > b.num * a.den

\* Series.mean(), .max(), .min()
Mean(values) == Frac(SeqSum(values), Len(values))
Max(values) == CHOOSE x \in Range(values) : \A y \in Range(values) : y <= x
Minimum(values) == CHOOSE x \in Range(values) : \A y \in Range(values) : x <= y

\* (df['charging'] != 'N').any() or (df['interval'] > 0).any() or (df['uptime'] > 0).any()
HasSolar(group) ==
    \/ \E i \in DOMAIN group : group[i].charging # "N"
    \/ \E i \in DOMAIN group : group[i].interval > 0
    \/ \E i \in DOMAIN group : group[i].uptime > 0

\* (df['charging'] == 'Y').sum()

\* detect_solar_data(df): <<has_solar, solar_info>>
detect_solar_data(group) ==
    IF group = <<>> THEN <<FALSE, Empty>>
    ELSE IF HasSolar(group)
    THEN <<TRUE, [charging_percentage |-> Frac(Cardinality({ i \in DOMAIN group : group[i].charging = "Y" }) * 100,
                                            Len(group)),
                  avg_interval |-> Mean(Column(group, "interval")),
                  max_uptime |-> Max(Column(group, "uptime")),
                  avg_uptime |-> Mean(Column(group, "uptime"))]>>
    ELSE <<FALSE, Empty>>

\* calculate_statistics(group)
calculate_statistics(group) ==
    LET solar == detect_solar_data(group) IN
    [count |-> Len(group),
     time_start |-> group[1].timestamp,
     time_end |-> group[Len(group)].timestamp,
     temperature_min |-> Minimum(Column(group, "temperature")),
     temperature_max |-> Max(Column(group, "temperature")),
     temperature_mean |-> Mean(Column(group, "temperature")),
     humidity_min |-> Minimum(Column(group, "humidity")),
     humidity_max |-> Max(Column(group, "humidity")),
     humidity_mean |-> Mean(Column(group, "humidity")),
     pressure_min |-> Minimum(Column(group, "pressure")),
     pressure_max |-> Max(Column(group, "pressure")),
     pressure_mean |-> Mean(Column(group, "pressure")),
     battery_min |-> Minimum(Column(group, "battery")),
     battery_max |-> Max(Column(group, "battery")),
     battery_mean |-> Mean(Column(group, "battery"))]
    @@ (IF Max(Column(group, "rssi")) # 0
        THEN [rssi_mean |-> Mean(Column(group, "rssi")),
              rssi_min |-> Minimum(Column(group, "rssi"))]
        ELSE Empty)
    @@ (IF Max(Column(group, "snr")) # 0
        THEN [snr_mean |-> Mean(Column(group, "snr")),
              snr_min |-> Minimum(Column(group, "snr"))]
        ELSE Empty)
    @@ (IF solar[1]
        THEN [solar_charging_pct |-> solar[2].charging_percentage,
              solar_avg_interval |-> solar[2].avg_interval,
              solar_max_uptime |-> solar[2].max_uptime]
        ELSE Empty)

\* faulty variant: a tie is labelled "increasing"
TrendOfTie(values) == IF values[Len(values)] >= values[1] THEN "increasing" ELSE "decreasing"

\* "increasing" if the last value is above the first, else "decreasing"
Trend(values) == IF values[Len(values)] > values[1] THEN "increasing" ELSE "decreasing"

\* faulty variant: a mean equal to a threshold falls in the upper class
BatteryHealthInclusive(avg_battery) ==
    IF ~FracGt(Frac(380, 1), avg_battery) THEN "Excellent"
    ELSE IF ~FracGt(Frac(360, 1), avg_battery) THEN "Good"
    ELSE IF ~FracGt(Frac(330, 1), avg_battery) THEN "Low"
    ELSE "Critical"

\* battery health from the mean voltage, in hundredths of a volt
BatteryHealth(avg_battery) ==
    IF FracGt(avg_battery, Frac(380, 1)) THEN "Excellent"
    ELSE IF FracGt(avg_battery, Frac(360, 1)) THEN "Good"
    ELSE IF FracGt(avg_battery, Frac(330, 1)) THEN "Low"
    ELSE "Critical"

\* solar performance from the charging percentage
SolarPerformance(charging_percentage) ==
    IF FracGt(charging_percentage, Frac(50, 1)) THEN "Excellent - frequently charging"
    ELSE IF FracGt(charging_percentage, Frac(25, 1)) THEN "Good - regular charging"
    ELSE IF FracGt(charging_percentage, Frac(10, 1)) THEN "Fair - occasional charging"
    ELSE "Poor - rarely charging"

\* generate_chunk_description(group): the sections of the report and the
\* values its lines carry
generate_chunk_description(group) ==
    LET solar == detect_solar_data(group)
        has_rssi == Max(Column(group, "rssi")) # 0
    IN
    [sections |-> {"TEMPORAL INFO", "ENVIRONMENTAL CONDITIONS", "SYSTEM STATUS"}
                    \cup (IF solar[1] THEN {"SOLAR SYSTEM INFO"} ELSE {})
                    \cup (IF has_rssi THEN {"SIGNAL QUALITY"} ELSE {}),
     date |-> StrftimeDate(group[1].timestamp),
     time_period |-> <<StrftimeDateTime(group[1].timestamp),
                       StrftimeDateTime(group[Len(group)].timestamp)>>,
     number_of_readings |-> Len(group),
     temp_trend |-> Trend(Column(group, "temperature")),
     humid_trend |-> Trend(Column(group, "humidity")),
     battery_health |-> BatteryHealth(Mean(Column(group, "battery")))]
    @@ (IF solar[1]
        THEN [charging_status |-> solar[2].charging_percentage,
              solar_performance |-> SolarPerformance(solar[2].charging_percentage)]
        ELSE Empty)
    @@ (IF has_rssi /\ Max(Column(group, "snr")) # 0
        THEN [snr |-> Mean(Column(group, "snr"))]
        ELSE Empty)

\* the f-string formats (:.1f) of the description raise on a text value
FormatRaises(group) ==
    \E i \in DOMAIN group :
        \E col \in {"temperature", "humidity", "pressure", "battery"} :
            group[i][col] = ObjectValue

\* faulty variant: the chunks are numbered from 1
ChunkDictFromOne(i, source_file, chunk) ==
    [chunk_id |-> i + 1,
     source_file |-> source_file,
     description |-> generate_chunk_description(chunk),
     statistics |-> calculate_statistics(chunk),
     raw_data |-> chunk]

\* the dictionary process_csv_file / create_time_based_chunks builds for
\* chunk number i (0-based) of source_file
ChunkDict(i, source_file, chunk) ==
    [chunk_id |-> i,
     source_file |-> source_file,
     description |-> generate_chunk_description(chunk),
     statistics |-> calculate_statistics(chunk),
     raw_data |-> chunk]

ZeroFrac == Frac(0, 1)

\* the metadata chunks_to_documents gives the Document of one chunk dict
MetadataOf(chunk, stats, time_start_str, time_end_str) ==
        [chunk_id |-> Get(chunk, "chunk_id", 0),
         source_file |-> Get(chunk, "source_file", "unknown"),
         time_start |-> time_start_str,
         time_end |-> time_end_str,
         start_time |-> time_start_str,
         end_time |-> time_end_str,
         date |-> StrftimeDate(stats.time_start),
         reading_count |-> Get(stats, "reading_count", 0),
         temperature_mean |-> Get(stats, "temperature_mean", ZeroFrac),
         humidity_mean |-> Get(stats, "humidity_mean", ZeroFrac),
         pressure_mean |-> Get(stats, "pressure_mean", ZeroFrac),
         battery_mean |-> Get(stats, "battery_mean", ZeroFrac)]

StatsMetadata(chunk, stats) ==
    MetadataOf(chunk, stats, StrftimeDateTime(stats.time_start),
               StrftimeDateTime(stats.time_end))

DocumentMetadata(chunk) == StatsMetadata(chunk, Get(chunk, "statistics", Empty))

\* chunks_to_documents(chunks)
chunks_to_documents(dicts) == [k \in DOMAIN dicts |-> DocumentMetadata(dicts[k])]

----------------------------------------------------------------------------
(* process_csv_file, process_multiple_csv_files, load_multiple_csv_files *)

\* the characters of the paths in ASCII order
Alphabet == "-./" \o Digits \o UpperCase \o "_" \o LowerCase

Ord(c) == CHOOSE i \in 1..Len(Alphabet) : Char(Alphabet, i) = c

\* a < b for str: the first differing character decides, a proper prefix
\* comes first
StrLess(a, b) ==
    \E k \in 1..Len(a) + 1 :
        /\ k - 1 <= Len(b)
        /\ SubSeq(a, 1, k - 1) = SubSeq(b, 1, k - 1)
        /\ IF k > Len(a) THEN k <= Len(b)
           ELSE k <= Len(b) /\ Ord(Char(a, k)) < Ord(Char(b, k))

\* glob.glob(os.path.join(directory_path, "lora_data_*.csv")) on the files
\* of the directory
Glob(files) ==
    { f \in files :
        /\ Len(Basename(f.path)) >= 14
        /\ SubSeq(Basename(f.path), 1, 10) = "lora_data_"
        /\ SubSeq(Basename(f.path), Len(Basename(f.path)) - 3, Len(Basename(f.path))) = ".csv" }

\* faulty variant: the file with the greatest path comes first
LastPath(files) == CHOOSE f \in files : \A g \in files \ {f} : StrLess(g.path, f.path)

\* the file whose path sorted() puts first
FirstPath(files) == CHOOSE f \in files : \A g \in files \ {f} : StrLess(f.path, g.path)

\* sorted(...) of the files by path
RECURSIVE Sorted(_)
Sorted(files) ==
    IF files = {} THEN <<>>
    ELSE <<FirstPath(files)>> \o Sorted(files \ {FirstPath(files)})

\* the loop of process_csv_file over the chunks: the dictionaries, or the
\* exception of generate_chunk_description
ProcessedChunks(csv_path, cs) ==
    IF \E k \in DOMAIN cs : FormatRaises(cs[k])
    THEN [raised |-> TRUE, chunks |-> <<>>]
    ELSE [raised |-> FALSE,
          chunks |-> [k \in DOMAIN cs |-> ChunkDict(k - 1, csv_path, cs[k])]]

\* process_csv_file after the read, on its result
ProcessRead(csv_path, result, h) ==
    IF result.none \/ result.rows = <<>>
    THEN { [raised |-> FALSE, chunks |-> <<>>] }
    ELSE { ProcessedChunks(csv_path, ChunkSorted(s, h)) : s \in SortValues(DropNa(result.rows)) }

\* process_csv_file(csv_path, hours_per_chunk): the outcomes it may have
process_csv_file(file, h) == ProcessRead(file.path, read_mixed_format_csv(file), h)

\* faulty variant: a file that raises discards what was gathered
ExtendOrDiscard(all_chunks, outcome) ==
    IF outcome.raised THEN <<>> ELSE all_chunks \o outcome.chunks

\* try: all_chunks.extend(chunks) / except Exception: continue
Extend(all_chunks, outcome) ==
    IF outcome.raised THEN all_chunks ELSE all_chunks \o outcome.chunks

\* process_multiple_csv_files(file_paths, hours_per_chunk): the lists it
\* may return, by the for loop over the files still to process from the
\* all_chunks gathered so far (all_chunks = [] at the call)
RECURSIVE process_multiple_csv_files(_, _, _)
process_multiple_csv_files(file_paths, h, all_chunks) ==
    IF file_paths = <<>> THEN { all_chunks }
    ELSE UNION { process_multiple_csv_files(Tail(file_paths), h, Extend(all_chunks, outcome)) :
                   outcome \in process_csv_file(Head(file_paths), h) }

----------------------------------------------------------------------------
(* get_data_summary *)

\* [t for t in values if t != 0]
NonZero(values) == SelectSeq(values, LAMBDA v : v.num # 0)


\* np.mean of a list of fractions, as the fraction of the common denominator
RECURSIVE DenProduct(_)
DenProduct(values) == IF values = <<>> THEN 1 ELSE Head(values).den * DenProduct(Tail(values))

RECURSIVE NumSum(_, _)
NumSum(values, common) ==
    IF values = <<>> THEN 0
    ELSE Head(values).num * (common \div Head(values).den) + NumSum(Tail(values), common)

\* min=, max=, avg= of one line of the overall statistics
Overall(values) ==
    [min |-> CHOOSE x \in Range(values) : \A y \in Range(values) : ~FracGt(x, y),
     max |-> CHOOSE x \in Range(values) : \A y \in Range(values) : ~FracGt(y, x),
     avg |-> Frac(NumSum(values, DenProduct(values)), DenProduct(values) * Len(values))]


\* faulty variant: without the guard for the empty list, chunks[0] raises
get_data_summary_unguarded(docs) ==
    IF docs = <<>>
    THEN [raised |-> TRUE, text |-> "IndexError", lines |-> Empty]
    ELSE [raised |-> FALSE, text |-> "DATA SUMMARY",
          lines |-> [Total_Chunks |-> Len(docs), Format |-> "LangChain Documents"]]

\* get_data_summary(chunks) on the Documents of chunks_to_documents:
\* [raised, text, lines]; lines maps the label of each line to its values
get_data_summary(docs) ==
    IF docs = <<>>
    THEN [raised |-> FALSE, text |-> "No data chunks available", lines |-> Empty]
    ELSE
    LET all_temps    == NonZero([k \in DOMAIN docs |-> docs[k].temperature_mean])
        all_humidity == NonZero([k \in DOMAIN docs |-> docs[k].humidity_mean])
        all_pressure == NonZero([k \in DOMAIN docs |-> docs[k].pressure_mean])
        all_battery  == NonZero([k \in DOMAIN docs |-> docs[k].battery_mean])
        head == [Total_Chunks |-> Len(docs), Format |-> "LangChain Documents"]
        range == [Time_Range |-> <<docs[1].time_start, docs[Len(docs)].time_end>>]
    IN  IF all_temps = <<>>
        THEN [raised |-> FALSE, text |-> "DATA SUMMARY",
              lines |-> head @@ [No_Statistics |-> TRUE] @@ range]
        ELSE IF all_humidity = <<>> \/ all_pressure = <<>> \/ all_battery = <<>>
        THEN [raised |-> TRUE, text |-> "ValueError", lines |-> Empty]  \* min() of an empty list
        ELSE [raised |-> FALSE, text |-> "DATA SUMMARY",
              lines |-> head @@ [Temperature |-> Overall(all_temps),
                                 Humidity |-> Overall(all_humidity),
                                 Pressure |-> Overall(all_pressure),
                                 Battery |-> Overall(all_battery)] @@ range]

----------------------------------------------------------------------------
(* Inputs *)


TablesOfLen(n) == { [i \in 1..n |-> Rec(i, f[i])] : f \in [1..n -> 0..MaxSlot \cup {NaT}] }

\* tables with arbitrary timestamps in arbitrary order

\* n rows one hour apart, starting at midnight

HourlyTables == { [i \in 1..n |-> Rec(i, (i - 1) * Hour)] : n \in 1..SampleRows }

\* header lines of the layouts the reader documents
Header8  == <<"timestamp", "temperature", "humidity", "pressure", "battery",
              "power_source", "rssi", "snr">>
Header9  == <<"timestamp", "temperature", "humidity", "pressure", "battery",
              "charging", "interval", "rssi", "snr">>
Header11 == <<"timestamp", "temperature", "humidity", "pressure", "battery",
              "charging", "interval", "uptime", "power_source", "rssi", "snr">>
\* header of the sample file of the tests
HeaderSample == <<"timestamp", "temperature", "humidity", "pressure", "battery",
                  "charging", "rssi", "snr", "interval">>

\* the time text of the n-th hour of the day
Clock(n) == ZeroPadded(n, 2) \o ":00:00"

Core(time) == <<time, "20.5", "60.0", "1013.2", "4.18">>

Row8(time, power_source) == Core(time) \o <<power_source, "-85", "8.5">>
Row9(time, charging, interval) == Core(time) \o <<charging, interval, "-85", "8.5">>
Row11(time, charging, interval, uptime, power_source) ==
    Core(time) \o <<charging, interval, uptime, power_source, "-85", "8.5">>

\* the 13 hourly rows of the sample file (sample_csv_data), in the column
\* order of its header
SampleLines ==
    <<<<"00:00:00", "18.5", "65.0", "1013.2", "4.18", "0", "-85", "8.5", "600">>,
       <<"01:00:00", "18.2", "66.0", "1013.1", "4.17", "0", "-87", "8.2", "600">>,
       <<"02:00:00", "18.0", "67.0", "1013.0", "4.16", "0", "-86", "8.0", "600">>,
       <<"03:00:00", "17.8", "68.0", "1012.9", "4.15", "0", "-85", "7.8", "600">>,
       <<"04:00:00", "17.9", "67.5", "1012.8", "4.14", "0", "-88", "7.5", "600">>,
       <<"05:00:00", "18.1", "66.5", "1012.7", "4.13", "0", "-86", "7.8", "600">>,
       <<"06:00:00", "18.5", "65.0", "1012.8", "4.12", "1", "-84", "8.0", "600">>,
       <<"07:00:00", "19.2", "63.0", "1013.0", "4.15", "1", "-83", "8.3", "600">>,
       <<"08:00:00", "20.1", "60.0", "1013.2", "4.18", "1", "-82", "8.5", "600">>,
       <<"09:00:00", "21.3", "58.0", "1013.5", "4.19", "1", "-81", "8.8", "600">>,
       <<"10:00:00", "22.5", "55.0", "1013.8", "4.2", "1", "-80", "9.0", "600">>,
       <<"11:00:00", "23.1", "53.0", "1014.0", "4.21", "1", "-79", "9.2", "600">>,
       <<"12:00:00", "23.8", "52.0", "1014.2", "4.22", "1", "-78", "9.5", "600">>>>

File(path, exists, header, lines) ==
    [path |-> path, exists |-> exists, header |-> header, lines |-> lines]

\* texts met in a charging column or field
ChargingTexts == {"1", "Y", "y", "yes", "Yes", "YES", "True", "true", "TRUE",
                  "0", "N", "", "no", " Y ", "yES"}

\* files of a solar sensor: one row whose solar fields vary, then possibly
\* a second row; a second row that opens a quote it never closes makes
\* pd.read_csv raise ParserError
SolarFiles ==
    { File("lora_data_2025-12-02.csv", TRUE, Header9, <<Row9(Clock(0), c, iv)>> \o more) :
        c \in ChargingTexts, iv \in {"0", "600"},
        more \in { <<>>,
                   <<Row9(Clock(1), "0", "0")>>,
                   <<Row8(Clock(1), "\"Battery")>>,
                   <<Row11(Clock(1), "0", "0", "0", "\"Solar")>> } }
    \cup
    { File("lora_data_2025-12-02.csv", TRUE, Header11,
           <<Row11(Clock(0), c, iv, up, "Solar")>> \o more) :
        c \in ChargingTexts, iv \in {"0", "600"}, up \in {"0", "3600"},
        more \in { <<>>,
                   <<Row11(Clock(1), "0", "0", "0", "Solar")>>,
                   <<Row11(Clock(1), "0", "0", "0", "\"Solar")>> } }

\* the sample rows under several paths, one of them of a missing file
NamedFiles ==
    { File(path, TRUE, HeaderSample, SampleLines) :
        path \in {"lora_data_2025-12-02.csv", "sensor_data.csv",
                  "/data/2025-12-01/sensor_data.csv", "/tmp/lora_data_2025-12-03.csv",
                  "lora_data_2025-13-45.csv"} }
    \cup { File("/nonexistent/file.csv", FALSE, <<>>, <<>>) }

\* files whose time texts may fail to parse

TimedFiles ==
    { File("lora_data_2025-12-02.csv", TRUE, Header8,
           <<Row8(a, "Battery"), Row8(b, "Battery")>>) : a \in {"00:00:00", "00:30:00", "02:00:00", "invalid", "25:00:00"},
        b \in {"00:00:00", "00:30:00", "02:00:00", "invalid", "25:00:00"} }

\* files of a standard sensor: two hourly rows whose signal readings vary
SignalFiles ==
    { File("lora_data_2025-12-02.csv", TRUE, Header8,
           <<Core(Clock(0)) \o <<"Battery", r1, s1>>,
             Core(Clock(1)) \o <<"Battery", r2, s2>>>>) :
        r1 \in {"-85", "0"}, r2 \in {"-85", "0"},
        s1 \in {"8.5", "0.0", "-5.0"}, s2 \in {"8.5", "0.0", "-5.0"} }

\* files of a standard sensor whose measurements vary: one row at midnight
\* and possibly a second one five hours later, in a chunk of its own
MeasuredFiles ==
    { File("lora_data_2025-12-02.csv", TRUE, Header8,
           <<<<Clock(0), t1, h1, "1013.2", b1, "Battery", "-85", "8.5">>>> \o more) :
        t1 \in {"0.0", "20.5"}, h1 \in {"0.0", "60.0"},
        b1 \in {"4.18", "3.8", "3.7", "3.6", "3.5", "3.3", "3.0", "0.0"},
        more \in { <<>> } \cup
                 { <<<<Clock(5), t2, h2, "1013.2", "4.18", "Battery", "-85", "8.5">>>> :
                     t2 \in {"0.0", "21.5"}, h2 \in {"0.0", "61.0"} } }

\* files of a solar sensor of which the first c rows charge: four rows one
\* hour apart, or ten rows half an hour apart
ChargingFiles ==
    { File("lora_data_2025-12-02.csv", TRUE, Header9,
           [i \in 1..4 |-> Row9(Clock(i - 1), IF i <= c THEN "1" ELSE "0", "600")]) :
        c \in 0..4 }
    \cup
    { File("lora_data_2025-12-02.csv", TRUE, Header9,
           [i \in 1..10 |-> Row9(ZeroPadded((i - 1) \div 2, 2) \o ":"
                                    \o ZeroPadded(30 * ((i - 1) % 2), 2) \o ":00",
                                 IF i <= c THEN "1" ELSE "0", "600")]) :
        c \in 1..2 }

\* the measurement columns alone
Header5 == <<"timestamp", "temperature", "humidity", "pressure", "battery">>

\* files at the edges of the reader
EdgeFiles ==
    \* a required column is missing: the malformed file of the tests, and
    \* standard rows under a header that names the battery column otherwise
    { File("malformed.csv", TRUE, <<"timestamp", "temperature">>,
           <<<<"00:00:00", "20.0">>, <<"01:00:00", "21.0">>>>) }
    \cup
    { File("lora_data_2025-12-02.csv", TRUE,
           <<"timestamp", "temperature", "humidity", "pressure", "voltage",
             "power_source", "rssi", "snr">>,
           <<Row8(Clock(0), "Battery"), Row8(Clock(1), p)>>) :
        p \in {"Battery", "\"Battery"} }
    \cup
    \* a temperature cell that is not a number
    { File("lora_data_2025-12-02.csv", TRUE, Header8,
           <<Row8(Clock(0), "Battery"),
             <<Clock(1), "n/a", "60.0", "1013.2", "4.18", "Battery", "-85", "8.5">>>>) }
    \cup
    \* the empty file and the files with a header and no data of the tests
    { File("empty.csv", TRUE, <<>>, <<>>),
      File("empty_data.csv", TRUE, HeaderSample, <<>>),
      File("lora_data_2025-12-02.csv", TRUE, Header8, <<<<"">>>>) }
    \cup
    \* no solar columns, and no power_source column either
    { File("lora_data_2025-12-02.csv", TRUE, Header5, <<Core(Clock(0)), Core(Clock(1))>>) }
    \cup
    \* rows of several layouts in one file, every quote closed
    { File("lora_data_2025-12-02.csv", TRUE, Header8,
           <<Row8(Clock(0), "Battery"), second, Row8(Clock(2), "Battery")>>) :
        second \in { Row9(Clock(1), "1", "600"),
                     Row11(Clock(1), "1", "600", "3600", "Solar") } }
    \cup
    \* rows the line-by-line parser may drop, between two rows it keeps (the
    \* first row opens a quote it never closes: pd.read_csv raises ParserError)
    { File("lora_data_2025-12-02.csv", TRUE, Header8,
           <<Row8(Clock(0), "\"Battery"), second, Row8(Clock(2), "Battery")>>) :
        second \in { <<"">>,
                     <<"01:00:00", "20.5">>,
                     Core("01:00:00"),
                     Core("01:00:00") \o <<"Battery">>,
                     <<"01:00:00", "abc", "60.0", "1013.2", "4.18", "Battery", "-85", "8.5">>,
                     <<"01:00:00", "20.5", "60.0", "1013.2", "", "Battery", "-85", "8.5">>,
                     Core("01:00:00") \o <<"Battery", "", "8.5">>,
                     Core("01:00:00") \o <<"Battery", "-85", "n/a">>,
                     Row9("01:00:00", "1", "interval"),
                     Row8("01:00:00", "Battery"),
                     Row11("01:00:00", "Y", "600", "3600", "Solar"),
                     Row11("01:00:00", "1", "", "", "Solar") \o <<"extra">> } }
    \cup
    \* no row survives the line-by-line parser
    { File("lora_data_2025-12-02.csv", TRUE, Header8,
           <<<<"00:00:00", "abc", "60.0", "1013.2", "4.18", "\"Battery", "-85", "8.5">>>>) }

\* what a directory may hold under each name: the sample rows under three
\* dates, the second date also as a file that fails (missing schema, header
\* only, unreadable, a cell that is not a number), and names the pattern
\* does not match
DirectoryEntries ==
    << { File("lora_data_2025-12-01.csv", TRUE, HeaderSample, SampleLines) },
       { File("lora_data_2025-12-02.csv", TRUE, HeaderSample, SampleLines),
         File("lora_data_2025-12-02.csv", TRUE, <<"timestamp", "temperature">>,
              <<<<"00:00:00", "20.0">>, <<"01:00:00", "21.0">>>>),
         File("lora_data_2025-12-02.csv", TRUE, HeaderSample, <<>>),
         File("lora_data_2025-12-02.csv", FALSE, <<>>, <<>>),
         File("lora_data_2025-12-02.csv", TRUE, Header8,
              <<Row8(Clock(0), "Battery"),
                <<Clock(1), "n/a", "60.0", "1013.2", "4.18", "Battery", "-85", "8.5">>>>) },
       { File("lora_data_2025-12-03.csv", TRUE, HeaderSample, SampleLines) },
       { File("readme.txt", TRUE, <<"This is not a CSV file">>, <<>>) },
       { File("sensor_data.csv", TRUE, HeaderSample, SampleLines) } >>

\* the directories: of each name, no file or one of its files
Directories ==
    { d \in SUBSET UNION Range(DirectoryEntries) :
        \A k \in DOMAIN DirectoryEntries : Cardinality(d \cap DirectoryEntries[k]) <= 1 }

InitRest ==
    /\ chunks = <<>>
    /\ chunk_dicts = <<>>
    /\ documents = <<>>
    /\ summary = [raised |-> FALSE, text |-> "", lines |-> Empty]
    /\ collections = {}
    /\ indexed_pdfs = <<>>
    /\ vectorstores = Empty

\* tables whose timestamp column holds texts (dtype object), not date-times
TextTables ==
    UNION { { [i \in 1..n |-> Rec(i, f[i])] :
                f \in [1..n -> {"1900-01-01 00:00:00", "1900-01-01 01:00:00", "invalid"}] } :
            n \in 1..2 }

\* create_time_based_chunks(df, hours_per_chunk) on a table
InitTable ==
    /\ \/ df_or_path \in [kind : {"df"}, dtype : {"datetime64"},
                           df : (UNION { TablesOfLen(n) : n \in 0..MaxRows }) \cup HourlyTables]
       \/ df_or_path \in [kind : {"df"}, dtype : {"object"}, df : TextTables]
    /\ hours_per_chunk \in 0..MaxHours
    /\ df = df_or_path.df
    /\ timestamp_dtype = df_or_path.dtype
    /\ df_is_none = FALSE
    /\ pc = "chunk"
    /\ InitRest

\* create_time_based_chunks(path, hours_per_chunk) on a file
InitFile ==
    /\ \/ /\ df_or_path \in [kind : {"path"}, file : SolarFiles \cup TimedFiles \cup SignalFiles
                                                       \cup EdgeFiles \cup MeasuredFiles]
          /\ hours_per_chunk = 4
       \/ /\ df_or_path \in [kind : {"path"}, file : NamedFiles \cup ChargingFiles]
          /\ hours_per_chunk \in {2, 4, 6, 24}
    /\ df = <<>>
    /\ timestamp_dtype = "datetime64"
    /\ df_is_none = FALSE
    /\ pc = "read"
    /\ InitRest

\* load_multiple_csv_files(directory_path, hours_per_chunk) on a directory
InitDirectory ==
    /\ df_or_path \in [kind : {"directory"}, files : Directories]
    /\ hours_per_chunk = 4
    /\ df = <<>>
    /\ timestamp_dtype = "datetime64"
    /\ df_is_none = FALSE
    /\ pc = "load"
    /\ InitRest

Init == InitTable \/ InitFile \/ InitDirectory

----------------------------------------------------------------------------
(* Actions: the steps of create_time_based_chunks and of its caller *)

SourceFile == IF df_or_path.kind = "path" THEN df_or_path.file.path ELSE "dataframe_input"

\* process_csv_file: df = read_mixed_format_csv(csv_path), and the return
\* of [] when df is None or empty
read_csv_file ==
    /\ pc = "read"
    /\ \E result \in {read_mixed_format_csv(df_or_path.file)} :
          /\ df' = result.rows
          /\ df_is_none' = result.none
          /\ pc' = IF result.none \/ result.rows = <<>> THEN "returned" ELSE "chunk"
    /\ UNCHANGED <<df_or_path, hours_per_chunk, timestamp_dtype, chunks, chunk_dicts, documents,
                   summary>>
    /\ UNCHANGED <<collections, indexed_pdfs, vectorstores>>

\* df['timestamp'] = pd.to_datetime(df['timestamp'], errors='coerce') on a
\* column of texts
ToDatetimeColumn(rows) ==
    [k \in DOMAIN rows |->
        [rows[k] EXCEPT !.timestamp = ToDatetimeDateTime(rows[k].timestamp)]]

\* chunks = chunk_csv_data(df, hours_per_chunk), and the return of [] when
\* there are no chunks; a timestamp column that is not of date-time type is
\* converted in the table of the caller
chunk_csv_data ==
    /\ pc = "chunk"
    /\ \E table \in {IF timestamp_dtype = "object" THEN ToDatetimeColumn(df) ELSE df} :
       \E s \in SortValues(DropNa(table)) :
       \E result \in {ChunkSorted(s, hours_per_chunk)} :
          /\ df' = table
          /\ timestamp_dtype' = "datetime64"
          /\ chunks' = result
          /\ pc' = IF result = <<>> THEN "returned" ELSE "describe"
    /\ UNCHANGED <<df_or_path, hours_per_chunk, df_is_none, chunk_dicts, documents, summary>>
    /\ UNCHANGED <<collections, indexed_pdfs, vectorstores>>

\* the loop building the chunk dictionaries (description and statistics);
\* an exception of generate_chunk_description escapes to the caller
describe_chunks ==
    /\ pc = "describe"
    /\ IF \E k \in DOMAIN chunks : FormatRaises(chunks[k])
       THEN /\ pc' = "raised"
            /\ UNCHANGED chunk_dicts
       ELSE /\ chunk_dicts' = [k \in DOMAIN chunks |-> ChunkDict(k - 1, SourceFile, chunks[k])]
            /\ pc' = "convert"
    /\ UNCHANGED <<df_or_path, hours_per_chunk, df, timestamp_dtype, df_is_none, chunks, documents, summary>>
    /\ UNCHANGED <<collections, indexed_pdfs, vectorstores>>

\* documents = chunks_to_documents(chunk_dicts); return documents
convert_chunks ==
    /\ pc = "convert"
    /\ documents' = chunks_to_documents(chunk_dicts)
    /\ pc' = "returned"
    /\ UNCHANGED <<df_or_path, hours_per_chunk, df, timestamp_dtype, df_is_none, chunks, chunk_dicts, summary>>
    /\ UNCHANGED <<collections, indexed_pdfs, vectorstores>>

\* the caller's get_data_summary(documents)
summarize ==
    /\ pc = "returned"
    /\ summary' = get_data_summary(documents)
    /\ pc' = "done"
    /\ UNCHANGED <<df_or_path, hours_per_chunk, df, timestamp_dtype, df_is_none, chunks, chunk_dicts, documents>>
    /\ UNCHANGED <<collections, indexed_pdfs, vectorstores>>

\* load_multiple_csv_files: the sorted matching files are processed and
\* the chunks of all of them converted to documents (no matching file gives
\* the empty list either way)
load_multiple_csv_files ==
    /\ pc = "load"
    /\ \E all_chunks \in process_multiple_csv_files(Sorted(Glob(df_or_path.files)),
                                                   hours_per_chunk, <<>>) :
          /\ chunk_dicts' = all_chunks
          /\ chunks' = [k \in DOMAIN all_chunks |-> all_chunks[k].raw_data]
          /\ documents' = chunks_to_documents(all_chunks)
    /\ pc' = "loaded"
    /\ UNCHANGED <<df_or_path, hours_per_chunk, df, timestamp_dtype, df_is_none, summary>>
    /\ UNCHANGED <<collections, indexed_pdfs, vectorstores>>

Next ==
    \/ load_multiple_csv_files
    \/ read_csv_file
    \/ chunk_csv_data
    \/ describe_chunks
    \/ convert_chunks
    \/ summarize

Spec == Init /\ [][Next]_vars

----------------------------------------------------------------------------
(* app.py: the names of the collections.  A stored document is a           *)
(* collection of the database; the session lists the documents by turning  *)
(* the collection names back into file names.                              *)

\* str.replace(old, new): every occurrence, left to right
RECURSIVE Replace(_, _, _)
Replace(s, old, new) ==
    IF Len(s) < Len(old) THEN s
    ELSE IF SubSeq(s, 1, Len(old)) = old
         THEN new \o Replace(SubSeq(s, Len(old) + 1, Len(s)), old, new)
         ELSE Char(s, 1) \o Replace(SubSeq(s, 2, Len(s)), old, new)

\* str.startswith(prefix)
StartsWith(s, prefix) == Len(s) >= Len(prefix) /\ SubSeq(s, 1, Len(prefix)) = prefix

\* uploaded_file.name.split('.')[-1].lower()
FileExtension(name) ==
    Lower(SubSeq(name, 1 - Min({0} \cup { 0 - i : i \in { j \in 1..Len(name) : Char(name, j) = "." } }),
                 Len(name)))

\* the collection name process_pdf and process_markdown give a file
CollectionName(name) ==
    IF FileExtension(name) = "md"
    THEN "md_" \o Replace(Replace(Replace(name, ".md", ""), " ", "_"), ".", "_")
    ELSE "pdf_" \o Replace(Replace(Replace(name, ".pdf", ""), " ", "_"), ".", "_")

\* the file names the listing appends for a collection: none for a
\* collection of another prefix
FileNamesOf(collection) ==
    IF StartsWith(collection, "pdf_")
    THEN <<Replace(Replace(collection, "pdf_", ""), "_", " ") \o ".pdf">>
    ELSE IF StartsWith(collection, "md_")
    THEN <<Replace(Replace(collection, "md_", ""), "_", " ") \o ".md">>
    ELSE <<>>

\* client.list_collections(): the collections in the order the database
\* returns them, which the code does not control
list_collections(cs) ==
    { order \in [1..Cardinality(cs) -> cs] :
        \A i, j \in 1..Cardinality(cs) : order[i] = order[j] => i = j }

\* get_indexed_pdfs_from_chroma(), on one listing of the collections
RECURSIVE get_indexed_pdfs_from_chroma(_)
get_indexed_pdfs_from_chroma(order) ==
    IF order = <<>> THEN <<>>
    ELSE FileNamesOf(Head(order)) \o get_indexed_pdfs_from_chroma(Tail(order))

\* the names of the files a user uploads
UploadNames ==
    {"report.pdf", "My Test Document.pdf", "README.md", "my_file.pdf",
     "document.v1.0.pdf", "REPORT.PDF", "pdf_notes.pdf", "notes.txt"}

\* a new session on a database that holds some of the uploads of earlier
\* sessions
InitApp ==
    /\ pc = "app"
    /\ df_or_path = [kind |-> "none"]
    /\ hours_per_chunk = 0
    /\ df = <<>>
    /\ timestamp_dtype = "datetime64"
    /\ df_is_none = FALSE
    /\ chunks = <<>>
    /\ chunk_dicts = <<>>
    /\ documents = <<>>
    /\ summary = [raised |-> FALSE, text |-> "", lines |-> Empty]
    /\ collections = {}
    /\ indexed_pdfs = <<>>
    /\ vectorstores = Empty

\* a new session: indexed_pdfs is filled from the database, and the
\* vectorstore of every listed file is opened under the collection name of
\* the listed name
start_session ==
    /\ pc = "app"
    /\ \E order \in list_collections(collections) :
       \E names \in {get_indexed_pdfs_from_chroma(order)} :
          /\ indexed_pdfs' = names
          /\ vectorstores' = [f \in Range(names) |-> CollectionName(f)]
          /\ collections' \in { collections \cup created :
                                  created \in SUBSET { CollectionName(f) : f \in Range(names) } }
    /\ Cardinality(collections') <= MaxCollections
    /\ UNCHANGED <<pc, df_or_path, hours_per_chunk, df, timestamp_dtype, df_is_none, chunks, chunk_dicts,
                   documents, summary>>

\* the loop body of the uploaded files, for one file that is not in
\* indexed_pdfs: the file is stored under its collection name, or the
\* processing fails and the session is left as it was; the constructor
\* Chroma(collection_name=...) may have created the collection before the
\* failure (it depends on the library)
process_uploaded_file ==
    /\ pc = "app"
    /\ \E name \in UploadNames :
          /\ name \notin Range(indexed_pdfs)
          /\ IF FileExtension(name) \in {"md", "pdf"}
             THEN \/ /\ collections' = collections \cup {CollectionName(name)}
                     /\ vectorstores' = (name :> CollectionName(name)) @@ vectorstores
                     /\ indexed_pdfs' = Append(indexed_pdfs, name)
                  \/ /\ collections' \in {collections, collections \cup {CollectionName(name)}}
                     /\ UNCHANGED <<vectorstores, indexed_pdfs>>
             ELSE UNCHANGED <<collections, indexed_pdfs, vectorstores>>
    /\ Cardinality(collections') <= MaxCollections
    /\ UNCHANGED <<pc, df_or_path, hours_per_chunk, df, timestamp_dtype, df_is_none, chunks, chunk_dicts,
                   documents, summary>>

NextApp ==
    \/ start_session
    \/ process_uploaded_file

SpecApp == InitApp /\ [][NextApp]_vars

----------------------------------------------------------------------------
(* Properties of chunk_csv_data *)

IsAscending(s) == \A i \in 1..Len(s) - 1 : s[i].timestamp <= s[i + 1].timestamp

\* chunk_csv_data has returned a chunk list for a table
Chunked == pc \in {"describe", "convert", "returned", "done"}

ChunkSizes == [i \in DOMAIN chunks |-> Len(chunks[i])]

\* the valid rows of the input are one hour apart once put in time order
IsHourly(d) ==
    LET v == DropNa(d) IN
    /\ v # <<>>
    /\ \A s \in SortValues(v) : \A i \in 1..Len(s) - 1 : TimeDiff(s, i) = Hour

\* C1 (coverage): the chunks, concatenated in output order, are the input
\* rows with a non-null timestamp in ascending timestamp order, and every
\* such row lies in exactly one chunk.
C1_Coverage ==
    Chunked =>
        LET flat  == Concat(chunks)
            valid == DropNa(df)
        IN  /\ IsAscending(flat)
            /\ Len(flat) = Len(valid)
            /\ \A r \in Range(valid) :
                  Cardinality({ i \in DOMAIN flat : flat[i] = r }) = 1
            /\ \A r \in Range(flat) : r \in Range(valid)

\* C1 witness: an unordered table with a null timestamp was split in two
\* or more chunks.
C1_Witness ==
    /\ Chunked
    /\ Len(chunks) >= 2
    /\ Len(DropNa(df)) < Len(df)
    /\ ~IsAscending(DropNa(df))

\* C2 (chunk ordering): timestamps inside every chunk are non-decreasing and
\* the last timestamp of a chunk is at most the first timestamp of the next.
C2_ChunkOrdering ==
    Chunked =>
        /\ \A k \in DOMAIN chunks : IsAscending(chunks[k])
        /\ \A k \in 1..Len(chunks) - 1 :
              chunks[k][Len(chunks[k])].timestamp <= chunks[k + 1][1].timestamp

\* C2 witness: rows that arrived out of order ended in two or more chunks,
\* one of them with several rows.
C2_Witness ==
    /\ Chunked
    /\ ~IsAscending(DropNa(df))
    /\ Len(chunks) >= 2
    /\ \E k \in DOMAIN chunks : Len(chunks[k]) >= 2

\* C3 (gap splitting): no chunk holds two consecutive rows more than one
\* hour apart, whatever hours_per_chunk is.
C3_GapSplitting ==
    Chunked =>
        \A k \in DOMAIN chunks : \A i \in 1..Len(chunks[k]) - 1 :
            TimeDiff(chunks[k], i) <= Hour

\* C3 witness: two rows adjacent in time order are more than an hour apart
\* while the window alone (two hours or more) would not have split them.
C3_Witness ==
    /\ Chunked
    /\ hours_per_chunk >= 2
    /\ \E k \in 1..Len(chunks) - 1 :
          /\ chunks[k + 1][1].timestamp - chunks[k][Len(chunks[k])].timestamp > Hour
          /\ chunks[k + 1][1].timestamp - chunks[k][1].timestamp < MaxDuration(hours_per_chunk)

\* C4 (window splitting): rows exactly one hour apart with a window of
\* h >= 1 hours give chunks of exactly h rows, the last one possibly
\* shorter; 13 hourly rows with h = 4 give chunks of 4, 4, 4 and 1 rows.
C4_WindowSplitting ==
    (Chunked /\ IsHourly(df) /\ hours_per_chunk >= 1) =>
        /\ \A k \in 1..Len(chunks) - 1 : Len(chunks[k]) = hours_per_chunk
        /\ Len(chunks[Len(chunks)]) \in 1..hours_per_chunk
        /\ (Len(DropNa(df)) = SampleRows /\ hours_per_chunk = 4)
              => ChunkSizes = <<4, 4, 4, 1>>

\* C4 witness: the 13-row hourly series was chunked with a 4-hour window.
C4_Witness ==
    /\ Chunked
    /\ IsHourly(df)
    /\ Len(df) = SampleRows
    /\ hours_per_chunk = 4
    /\ Len(chunks) = 4

----------------------------------------------------------------------------
(* Properties of the metadata and of the summary *)

\* create_time_based_chunks has returned its documents
Returned_Documents == pc \in {"returned", "done"} /\ documents # <<>>

\* the number of readings of all chunks
TotalReadings == SeqSum([k \in DOMAIN chunks |-> Len(chunks[k])])

\* C5 (reading count): the reading_count of the metadata of every returned
\* document is the number of records of its chunk.
C5_ReadingCount ==
    Returned_Documents =>
        \A k \in DOMAIN documents : documents[k].reading_count = Len(chunks[k])

\* C6 (summary total): the summary of the returned documents has a line for
\* the total reading count, and it is the sum of the chunks' reading counts.
C6_SummaryTotal ==
    (pc = "done" /\ documents # <<>>) =>
        /\ "Total_Readings" \in DOMAIN summary.lines
        /\ summary.lines["Total_Readings"] = TotalReadings

----------------------------------------------------------------------------
(* Properties of the reader *)

\* dates the system clock may show when the file is read
SystemDates == {"2025-12-05", "2026-01-15"}

\* the file has been read
FileRead == df_or_path.kind = "path" /\ pc # "read"

\* C7 (date priority): the documents of a file whose base name carries a date
\* are dated with it, and those of a file whose name carries none are dated
\* with the current system date.
C7_DatePriority ==
    \E today \in SystemDates :
        (FileRead /\ Returned_Documents) =>
            \A k \in DOMAIN documents :
                documents[k].date =
                    IF extract_date_from_filename(df_or_path.file.path) # NoDate
                    THEN extract_date_from_filename(df_or_path.file.path)
                    ELSE today

\* the truthy encodings of charging, in lower case
TruthyCharging == {"1", "y", "yes", "true"}

\* the two-valued flag of a raw charging text
Canonical(text) == IF Lower(Strip(text)) \in TruthyCharging THEN "Y" ELSE "N"

\* C8 (charging canonicalization): in a table read on the primary path, the
\* charging of every record is Y exactly when the trimmed text of its cell
\* is, ignoring case, one of 1, Y, yes, true, and N otherwise.
C8_ChargingCanonical ==
    (/\ FileRead
     /\ ReadPath(df_or_path.file) = "primary"
     /\ HasColumn(df_or_path.file.header, "charging")) =>
        \A k \in DOMAIN df :
            df[k].charging = Canonical(CellText(df_or_path.file, df[k].row, "charging"))

\* C9 (two-valued charging): after read_mixed_format_csv, on either path and
\* for every layout, the charging of every record is Y or N.
C9_ChargingYN ==
    FileRead => \A k \in DOMAIN df : df[k].charging \in {"Y", "N"}

\* a record that charges (by any truthy encoding), or reports an interval
\* or an uptime
IsSolarRecord(r) ==
    Canonical(r.charging) = "Y" \/ r.interval > 0 \/ r.uptime > 0

\* C10 (solar detection): a chunk gets the solar statistics and the solar
\* section of its description exactly when one of its records charges or
\* has interval > 0 or uptime > 0.
C10_SolarDetection ==
    pc \in {"convert", "returned", "done"} =>
        \A k \in DOMAIN chunk_dicts :
            /\ ("solar_charging_pct" \in DOMAIN chunk_dicts[k].statistics)
                  <=> (\E i \in DOMAIN chunks[k] : IsSolarRecord(chunks[k][i]))
            /\ ("SOLAR SYSTEM INFO" \in chunk_dicts[k].description.sections)
                  <=> (\E i \in DOMAIN chunks[k] : IsSolarRecord(chunks[k][i]))

----------------------------------------------------------------------------
(* Properties of the statistics and of the description *)

\* the chunk dictionaries have been built
Described == pc \in {"convert", "returned", "done"}

HasNonZero(chunk, col) == \E i \in DOMAIN chunk : chunk[i][col] # 0

\* C11 (signal-quality presence): the rssi entries of the statistics and the
\* signal quality section of the description are present exactly when some
\* record of the chunk has a nonzero rssi; the snr entries exactly when some
\* record has a nonzero snr (in the description, with rssi present too).
C11_SignalPresence ==
    Described =>
        \A k \in DOMAIN chunk_dicts :
            /\ ({"rssi_mean", "rssi_min"} \subseteq DOMAIN chunk_dicts[k].statistics)
                  <=> HasNonZero(chunks[k], "rssi")
            /\ ("SIGNAL QUALITY" \in chunk_dicts[k].description.sections)
                  <=> HasNonZero(chunks[k], "rssi")
            /\ ({"snr_mean", "snr_min"} \subseteq DOMAIN chunk_dicts[k].statistics)
                  <=> HasNonZero(chunks[k], "snr")
            /\ ("snr" \in DOMAIN chunk_dicts[k].description)
                  <=> (HasNonZero(chunks[k], "snr") /\ HasNonZero(chunks[k], "rssi"))

----------------------------------------------------------------------------
(* Properties of error handling *)

\* create_time_based_chunks has returned the empty list
ReturnedEmpty == pc \in {"returned", "done"} /\ chunks = <<>> /\ documents = <<>>

\* C12 (missing required schema): a file whose header lacks one of the five
\* required columns gives an empty table from normalize_csv_columns, no data
\* from read_mixed_format_csv and the empty list from
\* create_time_based_chunks.
C12_MissingSchema ==
    (/\ FileRead
     /\ df_or_path.file.header # <<>>
     /\ MissingRequired(df_or_path.file.header)) =>
        /\ normalize_csv_columns(df_or_path.file) = <<>>
        /\ df_is_none
        /\ ReturnedEmpty

----------------------------------------------------------------------------
(* Properties of the aggregation over several files *)

\* load_multiple_csv_files has returned
Loaded == pc = "loaded"

\* the chunk dictionaries of one source, in output order
ChunksOf(path) == SelectSeq(chunk_dicts, LAMBDA c : c.source_file = path)

\* the file fails: it raises, or it yields no chunk
Fails(file) ==
    \E outcome \in process_csv_file(file, hours_per_chunk) :
        outcome.raised \/ outcome.chunks = <<>>

SampleFilesLoaded ==
    { f \in Glob(df_or_path.files) : f.header = HeaderSample /\ f.lines = SampleLines }

\* C14 (aggregation order): the documents follow the sorted order of their
\* source paths, the chunks of one file are contiguous and in chunk order,
\* and three files of four chunks each give 12 documents, 4 per date.
C14_AggregationOrder ==
    Loaded =>
        /\ \A k \in 1..Len(documents) - 1 :
              \/ StrLess(documents[k].source_file, documents[k + 1].source_file)
              \/ /\ documents[k].source_file = documents[k + 1].source_file
                 /\ documents[k].chunk_id < documents[k + 1].chunk_id
                 /\ chunk_dicts[k].statistics.time_end
                       <= chunk_dicts[k + 1].statistics.time_start
        /\ \A f \in Glob(df_or_path.files) :
              Fails(f) \/ \E k \in DOMAIN documents : documents[k].source_file = f.path
        /\ (Glob(df_or_path.files) = SampleFilesLoaded /\ Cardinality(SampleFilesLoaded) = 3)
              => /\ Len(documents) = 12
                 /\ \A f \in SampleFilesLoaded :
                       Cardinality({ k \in DOMAIN documents :
                           documents[k].date = extract_date_from_filename(f.path) }) = 4

\* C14 witness: the three sample files were loaded from a directory that
\* also holds files the pattern does not match.
C14_Witness ==
    /\ Loaded
    /\ Cardinality(SampleFilesLoaded) = 3
    /\ Cardinality(df_or_path.files) = 5
    /\ Len(documents) = 12

\* C15 (chunk numbering): the chunk_id values of the chunks of every source
\* are 0, 1, ..., k-1 in chunk order, every chunk is non-empty, and in the
\* output of several files the numbering restarts at 0 with every file.
C15_ChunkNumbering ==
    (Described \/ Loaded) =>
        \A c \in Range(chunk_dicts) :
            /\ c.raw_data # <<>>
            /\ \A j \in DOMAIN ChunksOf(c.source_file) :
                  ChunksOf(c.source_file)[j].chunk_id = j - 1

\* C15 witness: two files of several chunks each were loaded, and the first
\* chunk of the second file is numbered 0.
C15_Witness ==
    /\ Loaded
    /\ Len(chunk_dicts) >= 8
    /\ chunk_dicts[4].chunk_id = 3
    /\ chunk_dicts[5].chunk_id = 0
    /\ chunk_dicts[5].source_file # chunk_dicts[4].source_file

\* the file is missing, empty, or holds nothing but a header and blank lines
HasNoData(file) ==
    \/ ~file.exists
    \/ file.header = <<>>
    \/ \A i \in DOMAIN file.lines : IsBlankLine(file.lines[i])

\* C16 (empty input): an empty file, a header-only file or a missing file
\* gives the empty list from create_time_based_chunks without raising, and
\* get_data_summary of the empty list is "No data chunks available".
C16_EmptyInput ==
    (FileRead /\ HasNoData(df_or_path.file)) =>
        /\ ReturnedEmpty
        /\ pc = "done" => (~summary.raised /\ summary.text = "No data chunks available")

\* C16 witness: the summary of the result of a header-only file was made.
C16_Witness ==
    /\ FileRead
    /\ df_or_path.file.exists
    /\ df_or_path.file.header # <<>>
    /\ df_or_path.file.lines = <<>>
    /\ pc = "done"
    /\ summary.text = "No data chunks available"

\* the data lines the reader turns into rows, whatever their time text
LinesRead(file) ==
    IF ReadPath(file) = "primary" THEN KeptLines(file)
    ELSE IF ReadPath(file) = "line_by_line" THEN ParsedLines(file)
    ELSE {}

\* C17 (unparsable timestamps): a row whose time text does not parse is
\* kept by the reader, with a null timestamp; it is in no chunk; and a file
\* none of whose time texts parses gives the empty list without raising.
C17_UnparsableTimestamps ==
    (FileRead /\ ~MissingRequired(df_or_path.file.header)) =>
        /\ \A i \in LinesRead(df_or_path.file) :
              \E k \in DOMAIN df :
                  /\ df[k].row = i
                  /\ ~TimeOk(Strip(df_or_path.file.lines[i][1])) => df[k].timestamp = NaT
        /\ Len(df) = Cardinality(LinesRead(df_or_path.file))
        /\ Chunked =>
              /\ \A r \in Range(Concat(chunks)) : r.timestamp # NaT
              /\ Len(Concat(chunks)) = Cardinality({ k \in DOMAIN df : df[k].timestamp # NaT })
        /\ (Chunked /\ \A k \in DOMAIN df : df[k].timestamp = NaT) => ReturnedEmpty

\* C17 witness: of two rows read, the one whose time text does not parse
\* was left out of the chunks.
C17_Witness ==
    /\ FileRead
    /\ pc = "done"
    /\ Len(df) = 2
    /\ \E k \in DOMAIN df :
          /\ df[k].timestamp = NaT
          /\ ~TimeOk(Strip(df_or_path.file.lines[df[k].row][1]))
    /\ Len(Concat(chunks)) = 1

\* C18 (defaults): a table without the solar columns is normalized to
\* charging "N", interval 0 and uptime 0, and so is a standard 8-field row
\* of the line-by-line parser; an absent power_source becomes "Solar" when
\* the raw input has a charging column (a 9-field row) and "Unknown"
\* otherwise.
C18_Defaults ==
    (FileRead /\ ~df_is_none) =>
        \A k \in DOMAIN df :
            IF ReadPath(df_or_path.file) = "primary"
            THEN /\ ~HasColumn(df_or_path.file.header, "charging") => df[k].charging = "N"
                 /\ ~HasColumn(df_or_path.file.header, "interval") => df[k].interval = 0
                 /\ ~HasColumn(df_or_path.file.header, "uptime") => df[k].uptime = 0
                 /\ ~HasColumn(df_or_path.file.header, "power_source") =>
                        df[k].power_source =
                            IF HasColumn(df_or_path.file.header, "charging")
                            THEN "Solar" ELSE "Unknown"
            ELSE /\ Len(df_or_path.file.lines[df[k].row]) = 8 =>
                        /\ df[k].charging = "N"
                        /\ df[k].interval = 0
                        /\ df[k].uptime = 0
                 /\ Len(df_or_path.file.lines[df[k].row]) = 9 => df[k].power_source = "Solar"
                 /\ Len(df_or_path.file.lines[df[k].row]) = 5 => df[k].power_source = "Unknown"

\* C18 witness: a table with a charging column and neither power_source nor
\* uptime was normalized to "Solar" and uptime 0.
C18_Witness ==
    /\ FileRead
    /\ ~df_is_none
    /\ ReadPath(df_or_path.file) = "primary"
    /\ HasColumn(df_or_path.file.header, "charging")
    /\ ~HasColumn(df_or_path.file.header, "power_source")
    /\ ~HasColumn(df_or_path.file.header, "uptime")
    /\ Len(df) > 0
    /\ \A k \in DOMAIN df : df[k].power_source = "Solar" /\ df[k].uptime = 0

\* a table of five columns was given power_source "Unknown" and the solar
\* defaults
C18_WitnessUnknown ==
    /\ FileRead
    /\ ~df_is_none
    /\ ReadPath(df_or_path.file) = "primary"
    /\ df_or_path.file.header = Header5
    /\ Len(df) > 0
    /\ \A k \in DOMAIN df : df[k].power_source = "Unknown" /\ df[k].charging = "N"

\* the data lines of the file that are not blank
DataLines(file) == { i \in DOMAIN file.lines : ~IsBlankLine(file.lines[i]) }

\* the line has at least five fields and its four measurements are numbers
HasNumericCore(line) ==
    /\ Len(line) >= 5
    /\ \A k \in 2..5 : FloatOk(Strip(line[k]))

\* C19 (degraded-path trigger): when the data rows of a file differ in
\* their field counts the reader takes the line-by-line parser, and every
\* row with at least five fields and numeric measurements yields a record.
C19_MixedFieldCounts ==
    (/\ FileRead
     /\ df_or_path.file.exists
     /\ ~MissingRequired(df_or_path.file.header)
     /\ \E i, j \in DataLines(df_or_path.file) :
            Len(df_or_path.file.lines[i]) # Len(df_or_path.file.lines[j])) =>
        /\ ReadPath(df_or_path.file) = "line_by_line"
        /\ ~df_is_none
        /\ \A i \in DataLines(df_or_path.file) :
              HasNumericCore(df_or_path.file.lines[i]) => \E k \in DOMAIN df : df[k].row = i

\* C20 (row-level malformation): the line-by-line parser drops a data row
\* if and only if it has fewer than five fields or one of its measurements
\* is not a number; the rows kept are in file order; and a file with no
\* surviving row is reported as no data.
C20_RowMalformation ==
    (FileRead /\ ReadPath(df_or_path.file) = "line_by_line") =>
        /\ { df[k].row : k \in DOMAIN df } =
              { i \in DataLines(df_or_path.file) : HasNumericCore(df_or_path.file.lines[i]) }
        /\ \A k \in DOMAIN df : k > 1 => df[k - 1].row < df[k].row
        /\ df_is_none <=>
              ~\E i \in DataLines(df_or_path.file) : HasNumericCore(df_or_path.file.lines[i])

----------------------------------------------------------------------------
(* Properties of the layouts, the descriptions and the summary *)

\* the optional fields of record r are those the layout of its field count
\* takes from the stripped fields f of its line
HasLayout(r, f) ==
    CASE Len(f) = 8 ->
           /\ r.power_source = f[6] /\ r.rssi = IntValue(f[7]) /\ r.snr = FloatValue(f[8])
           /\ r.charging = "N" /\ r.interval = 0 /\ r.uptime = 0
      [] Len(f) = 9 ->
           /\ r.charging \in {"Y", "N"}
           /\ r.charging = "Y" => Canonical(f[6]) = "Y"
           /\ r.interval = IF f[7] = "" THEN 0 ELSE IntValue(f[7])
           /\ r.rssi = IntValue(f[8]) /\ r.snr = FloatValue(f[9])
           /\ r.power_source = "Solar" /\ r.uptime = 0
      [] Len(f) >= 11 ->
           /\ r.charging = f[6]
           /\ r.interval = IF f[7] = "" THEN 0 ELSE IntValue(f[7])
           /\ r.uptime = IF f[8] = "" THEN 0 ELSE IntValue(f[8])
           /\ r.power_source = f[9]
           /\ r.rssi = IntValue(f[10]) /\ r.snr = FloatValue(f[11])
      [] OTHER ->
           /\ r.power_source = IF Len(f) >= 6 THEN f[6] ELSE "Unknown"
           /\ r.rssi = 0 /\ r.snr = 0 /\ r.interval = 0 /\ r.uptime = 0
           /\ r.charging = "N"

\* C21 (layout classification): every record of the line-by-line parser has
\* its optional fields assigned by the field count of its line alone: 5
\* fields all defaults; 8 fields power_source, rssi, snr with the solar
\* defaults; 9 fields charging, interval, rssi, snr with "Solar" and uptime
\* 0; 11 or more fields the six of fields 6-11; any other count field 6 as
\* power_source, if present, and defaults.
C21_LayoutClassification ==
    (FileRead /\ ReadPath(df_or_path.file) = "line_by_line") =>
        \A k \in DOMAIN df :
            HasLayout(df[k], StrippedFields(df_or_path.file.lines[df[k].row]))

\* C21 witness: the line-by-line parser returned a record of a 9-field
\* line, or of a line of 11 fields or more, together with a record of an
\* 8-field line.
C21_Witness ==
    /\ FileRead
    /\ ReadPath(df_or_path.file) = "line_by_line"
    /\ \E k \in DOMAIN df : Len(df_or_path.file.lines[df[k].row]) \in {9, 11, 12}
    /\ \E k \in DOMAIN df : Len(df_or_path.file.lines[df[k].row]) = 8

\* the chunk-level means of one measurement, of all chunks
ChunkMeans(key) == [k \in DOMAIN chunk_dicts |-> chunk_dicts[k].statistics[key]]

\* C22 (dataset summary statistics): the min, max and mean the summary
\* reports for temperature, humidity, pressure and battery are those of the
\* chunk-level means of all chunks of the list.
C22_SummaryStatistics ==
    (pc = "done" /\ documents # <<>>) =>
        /\ ~summary.raised
        /\ {"Temperature", "Humidity", "Pressure", "Battery"} \subseteq DOMAIN summary.lines
        /\ summary.lines["Temperature"] = Overall(ChunkMeans("temperature_mean"))
        /\ summary.lines["Humidity"] = Overall(ChunkMeans("humidity_mean"))
        /\ summary.lines["Pressure"] = Overall(ChunkMeans("pressure_mean"))
        /\ summary.lines["Battery"] = Overall(ChunkMeans("battery_mean"))

\* the label the description owes to the first and last values of a column
TrendLabel(chunk, col) ==
    IF chunk[Len(chunk)][col] > chunk[1][col] THEN "increasing" ELSE "decreasing"

\* C23 (trend label): the temperature and humidity labels of a chunk's
\* description are "increasing" exactly when the value of the last record is
\* strictly greater than that of the first, and "decreasing" otherwise, a
\* tie and a one-record chunk included.
C23_TrendLabel ==
    Described =>
        \A k \in DOMAIN chunk_dicts :
            /\ chunk_dicts[k].description.temp_trend = TrendLabel(chunks[k], "temperature")
            /\ chunk_dicts[k].description.humid_trend = TrendLabel(chunks[k], "humidity")
            /\ Len(chunks[k]) = 1 =>
                  /\ chunk_dicts[k].description.temp_trend = "decreasing"
                  /\ chunk_dicts[k].description.humid_trend = "decreasing"

\* C23 witness: the sample file with a 4-hour window: the temperature of
\* the first chunk falls while its humidity rises, the temperature of the
\* third chunk rises, and the last chunk has a single record.
C23_Witness ==
    /\ Described
    /\ Len(chunk_dicts) = 4
    /\ chunk_dicts[1].description.temp_trend = "decreasing"
    /\ chunk_dicts[1].description.humid_trend = "increasing"
    /\ chunk_dicts[3].description.temp_trend = "increasing"
    /\ chunk_dicts[3].description.humid_trend = "decreasing"
    /\ Len(chunks[4]) = 1
    /\ chunk_dicts[4].description.temp_trend = "decreasing"

\* the number of records of the chunk that charge, by any truthy encoding
ChargingRecords(chunk) ==
    Cardinality({ i \in DOMAIN chunk : Canonical(chunk[i].charging) = "Y" })

\* the class of a charging percentage: p = n / d
PerformanceClass(n, d) ==
    IF n > 50 * d THEN "Excellent - frequently charging"
    ELSE IF n > 25 * d THEN "Good - regular charging"
    ELSE IF n > 10 * d THEN "Fair - occasional charging"
    ELSE "Poor - rarely charging"

\* C24 (solar performance): the charging percentage of a chunk that has
\* solar is its number of charging records over its number of records,
\* times 100, and its performance label is Excellent above 50, Good above
\* 25, Fair above 10, Poor otherwise.
C24_SolarPerformance ==
    Described =>
        \A k \in DOMAIN chunk_dicts :
            "solar_charging_pct" \in DOMAIN chunk_dicts[k].statistics =>
                /\ chunk_dicts[k].statistics.solar_charging_pct.num
                        * Len(chunks[k])
                     = 100 * ChargingRecords(chunks[k])
                        * chunk_dicts[k].statistics.solar_charging_pct.den
                /\ chunk_dicts[k].description.charging_status
                     = chunk_dicts[k].statistics.solar_charging_pct
                /\ chunk_dicts[k].description.solar_performance
                     = PerformanceClass(100 * ChargingRecords(chunks[k]), Len(chunks[k]))

\* the sum of the battery voltages of a chunk, in hundredths of a volt
BatterySum(chunk) == SeqSum([i \in DOMAIN chunk |-> chunk[i].battery])

\* C25 (battery health): the label of a chunk's description follows from
\* the chunk's mean battery voltage: Excellent above 3.8, Good above 3.6,
\* Low above 3.3, Critical otherwise; a mean equal to a threshold falls in
\* the lower class.
C25_BatteryHealth ==
    Described =>
        \A k \in DOMAIN chunk_dicts :
            chunk_dicts[k].description.battery_health =
                IF BatterySum(chunks[k]) > 380 * Len(chunks[k]) THEN "Excellent"
                ELSE IF BatterySum(chunks[k]) > 360 * Len(chunks[k]) THEN "Good"
                ELSE IF BatterySum(chunks[k]) > 330 * Len(chunks[k]) THEN "Low"
                ELSE "Critical"

\* C25 witness: a chunk whose mean voltage is exactly 3.8 was labelled
\* Good, beside a chunk above 3.8 labelled Excellent.
C25_Witness ==
    /\ Described
    /\ Len(chunk_dicts) = 2
    /\ BatterySum(chunks[1]) = 380 * Len(chunks[1])
    /\ chunk_dicts[1].description.battery_health = "Good"
    /\ chunk_dicts[2].description.battery_health = "Excellent"

----------------------------------------------------------------------------
(* Properties of the chunker across windows *)

\* the windows compared
Windows == 0..MaxHours \cup {24}

\* C26 (window monotonicity): for the same records, a smaller
\* hours_per_chunk never gives fewer chunks than a larger one; the 13 hourly
\* records of the sample give strictly more chunks with 2 hours than with 6.
C26_WindowMonotonicity ==
    Chunked =>
        \A s \in SortValues(DropNa(df)) :
            /\ \A h \in Windows :
                  /\ h < hours_per_chunk => Len(ChunkSorted(s, h)) >= Len(chunks)
                  /\ h > hours_per_chunk => Len(ChunkSorted(s, h)) <= Len(chunks)
            /\ (IsHourly(df) /\ Len(DropNa(df)) = SampleRows) =>
                  Len(ChunkSorted(s, 2)) > Len(ChunkSorted(s, 6))

\* C26 witness: the 13 hourly records were chunked with 6 hours per chunk
\* into 3 chunks, and 2 hours per chunk gives 7.
C26_Witness ==
    /\ Chunked
    /\ IsHourly(df)
    /\ Len(df) = SampleRows
    /\ hours_per_chunk = 6
    /\ Len(chunks) = 3
    /\ \A s \in SortValues(DropNa(df)) : Len(ChunkSorted(s, 2)) = 7

\* the time from the first record of a chunk to its last
Span(chunk) == chunk[Len(chunk)].timestamp - chunk[1].timestamp

\* C28 (soft split bound): a chunk is closed at the first record, at most
\* an hour after its predecessor, that lies a window or more after the
\* chunk's first record; so for every window above zero the span of every
\* emitted chunk is strictly less than the window.
C28_SoftSplitBound ==
    (Chunked /\ hours_per_chunk > 0) =>
        /\ \A k \in DOMAIN chunks : Span(chunks[k]) < hours_per_chunk * Hour
        /\ \A k \in 1..Len(chunks) - 1 :
              chunks[k + 1][1].timestamp - chunks[k][Len(chunks[k])].timestamp <= Hour
                  => chunks[k + 1][1].timestamp - chunks[k][1].timestamp
                        >= hours_per_chunk * Hour

\* C28 witness: a chunk of several records was closed by the window, at a
\* record at most an hour after its last one.
C28_Witness ==
    /\ Chunked
    /\ hours_per_chunk > 0
    /\ \E k \in 1..Len(chunks) - 1 :
          /\ Len(chunks[k]) > 1
          /\ chunks[k + 1][1].timestamp - chunks[k][Len(chunks[k])].timestamp <= Hour

\* C29 (the chunker does not mutate its input): once chunk_csv_data has
\* returned, the table of the caller has the rows and values it had before
\* the call, whatever the type of its timestamp column.
C29_InputUnchanged ==
    (df_or_path.kind = "df" /\ Chunked) =>
        /\ timestamp_dtype = df_or_path.dtype
        /\ df = df_or_path.df

\* C30 (the summary never raises): for every non-empty list of documents,
\* whatever the chunk-level means of temperature, humidity, pressure and
\* battery, get_data_summary returns a summary string.
C30_SummaryNeverRaises ==
    (pc = "done" /\ documents # <<>>) =>
        /\ ~summary.raised
        /\ summary.text = "DATA SUMMARY"

----------------------------------------------------------------------------
(* Properties of the collection names of app.py *)

\* C27 (collection-name round trip): the collection name of a stored file,
\* turned back into a file name, is the name of the file; so no two names
\* of indexed_pdfs stand for the same collection.
C27_NameRoundTrip ==
    /\ \A name \in DOMAIN vectorstores : FileNamesOf(vectorstores[name]) = <<name>>
    /\ \A i, j \in DOMAIN indexed_pdfs :
          CollectionName(indexed_pdfs[i]) = CollectionName(indexed_pdfs[j]) => i = j

====
